---- MODULE Spec2Model ----
(***************************************************************************)
(* The repository feed of src/src/App.js (the App component, lines 250 to  *)
(* 517): committed and draft search parameters, the debounced page load,   *)
(* the merge of page responses into repos, and the IntersectionObserver    *)
(* that advances the page cursor, and the README viewer.                   *)
(*                                                                         *)
(* One action is one event-loop task together with the render and the      *)
(* effects React runs for it: a click or change handler, a debounce timer  *)
(* expiring, a response or a failure arriving at the await, an observer    *)
(* notification.  The passing of time and the position of the sentinel in  *)
(* the viewport are the environment.                                       *)
(***************************************************************************)
EXTENDS Integers, Sequences, FiniteSets, TLC

\* ------------------------------------------------------------ bounds
\* applyFilters is clicked at most MaxCommits times in a run.
MaxCommits == 2
\* At most MaxEdits changes of a draft input in a run.
MaxEdits == 1
\* debouncedLoadRepos is called at most MaxCalls times in a run, the call of
\* the first render included.
MaxCalls == 3
\* Time passes in steps of TickUnit time units.
TickUnit == 300
\* View README is clicked at most MaxFetches times in a run.
MaxFetches == 2

\* ------------------------------------------------------------ program constants
\* lodash debounce wait of debouncedLoadRepos.
DebounceWait == 300
\* per_page request parameter.
PerPage == 10
\* Page cursor after useState(1) and after setPage(1).
FirstPage == 1

\* useState(null): the value of readme while no document is shown.
Null == << >>

\* ------------------------------------------------------------ input values
\* Values the draft inputs are set to (the defaults and one other each).
QueryVals == {"c", "raft"}
LanguageVals == {"", "python"}
SortVals == {"stars", "forks"}
OrderVals == {"desc", "asc"}
KeywordsVals == {"", "consensus"}
TopicsVals == {"", "database"}

\* A page of the backend: n records with consecutive ids from a.
PageFrom(a, n) == [i \in 1..n |-> [id |-> a + i - 1]]

\* The items a response carries (res.data.items): a full page, a short page
\* that overlaps it, a page repeating one id.
Pages ==
  { PageFrom(1, PerPage), PageFrom(PerPage - 1, 3),
    <<[id |-> 2 * PerPage], [id |-> 2 * PerPage]>> }

\* The cards whose View README button is clicked, by the id of their record.
ClickedIds == {1, PerPage - 1}

VARIABLES
  repos, page, query, language, sort, order, license, minStars, keywords,
  topics, loading, readme,
  tempQuery, tempLanguage, tempSort, tempOrder, tempLicense, tempMinStars,
  tempKeywords, tempTopics,
  timers,     \* pending debounced calls, oldest first: [args, left]
  inflight,   \* requests awaiting their response, in order of issue
  visible,    \* whether the sentinel intersects the viewport
  observed,   \* last entry the current observer delivered: "none", "in", "out"
  merged,     \* history: requests merged into repos since repos was last cleared
  failed,     \* history: a page request failed and no user trigger came since
  commits,    \* history: number of applyFilters calls
  edits,      \* history: number of draft edits
  calls,      \* history: number of debouncedLoadRepos calls
  readmeFlight,  \* README requests awaiting their response, in order of issue
  docKey,     \* history: <<key>> last passed to fetchReadme, << >> after Close
  readmeErrored,  \* history: the last README response was a failure
  fetches     \* history: number of fetchReadme calls

committed == <<query, language, sort, order, license, minStars, keywords, topics>>
temps ==
  <<tempQuery, tempLanguage, tempSort, tempOrder, tempLicense, tempMinStars,
    tempKeywords, tempTopics>>
viewer == <<readme, readmeFlight, docKey, readmeErrored, fetches>>
vars ==
  <<repos, page, committed, loading, temps, timers, inflight, visible,
    observed, merged, failed, commits, edits, calls, viewer>>

\* ------------------------------------------------------------ helpers
\* The argument list of one debouncedLoadRepos call.
ArgsOf(q, p, l, s, o, li, ms, k, t) ==
  [query |-> q, page |-> p, language |-> l, sort |-> s, order |-> o,
   license |-> li, minStars |-> ms, keywords |-> k, topics |-> t]

\* The arguments the load effect passes in the current render.
CurArgs ==
  ArgsOf(query, page, language, sort, order, license, minStars, keywords, topics)

\* The filter part of an argument list or of a request.
FiltersOf(a) ==
  <<a.query, a.language, a.sort, a.order, a.license, a.minStars, a.keywords,
    a.topics>>

\* The params object of the axios.get call for one argument list.
ParamsOf(a) ==
  [query |-> a.query, page |-> a.page, per_page |-> PerPage,
   language |-> a.language, sort |-> a.sort, order |-> a.order,
   license |-> a.license, minStars |-> a.minStars, keywords |-> a.keywords,
   topics |-> a.topics]

\* The load effect calling with the arguments of the render before.
LoadEffectStale(old, new, tm) ==
  IF new # old THEN Append(tm, [args |-> old, left |-> DebounceWait]) ELSE tm

\* The load effect: it runs when one of its dependencies changed, and calls
\* the debounced function created by that render, which starts a timer of
\* its own; timers of earlier renders are left running.
LoadEffect(old, new, tm) ==
  IF new # old THEN Append(tm, [args |-> new, left |-> DebounceWait]) ELSE tm

\* The number of debouncedLoadRepos calls after a render.
CallsAfter(old, new, n) == IF new # old THEN n + 1 ELSE n

\* The observer setup effect: it runs when observerCallback changed, that is
\* when loading changed; it disconnects the observer and creates a new one,
\* which has delivered nothing yet.
ObserverEffect(oldLoading, newLoading, obs) ==
  IF newLoading # oldLoading THEN "none" ELSE obs

\* The entry an observer delivers for the sentinel.
Entry(isIntersecting) == IF isIntersecting THEN "in" ELSE "out"

\* observerCallback without its isIntersecting test.
ShouldAdvanceAnyEntry(isIntersecting, ld) == ~ld

\* The setPage updater of observerCallback.
NextPage(prev) == prev + 1

\* The condition of observerCallback.
ShouldAdvance(isIntersecting, ld) == isIntersecting /\ ~ld

\* The setRepos updater without its filter.
MergeAll(prev, items) == prev \o items

\* The setRepos updater: the items whose id is not in prev, appended to prev.
Merge(prev, items) ==
  LET Fresh(repo) == ~ \E i \in DOMAIN prev : prev[i].id = repo.id
  IN  prev \o SelectSeq(items, Fresh)

\* The sequence s without its i-th element.
Without(s, i) == SubSeq(s, 1, i - 1) \o SubSeq(s, i + 1, Len(s))

\* applyFilters without its setRepos([]).
KeptRepos == repos

\* applyFilters resetting the cursor to 0.
ResetPageZero == FirstPage - 1

\* The values applyFilters sets page and repos to.
ResetPage == FirstPage
ClearedRepos == << >>

\* The useState defaults of the committed filters.
Defaults == <<"c", "", "stars", "desc", "", "", "", "">>

\* ------------------------------------------------------------ initial state
\* The state after the first render and its effects: the load effect has
\* called debouncedLoadRepos once, the observer observes the sentinel.
Init ==
  /\ repos = << >>
  /\ page = FirstPage
  /\ query = "c" /\ language = "" /\ sort = "stars" /\ order = "desc"
  /\ license = "" /\ minStars = "" /\ keywords = "" /\ topics = ""
  /\ loading = FALSE
  /\ tempQuery = "c" /\ tempLanguage = "" /\ tempSort = "stars"
  /\ tempOrder = "desc" /\ tempLicense = "" /\ tempMinStars = ""
  /\ tempKeywords = "" /\ tempTopics = ""
  /\ timers =
       <<[args |-> ArgsOf("c", FirstPage, "", "stars", "desc", "", "", "", ""),
          left |-> DebounceWait]>>
  /\ inflight = << >>
  /\ visible \in BOOLEAN
  /\ observed = "none"
  /\ merged = << >>
  /\ failed = FALSE
  /\ commits = 0
  /\ edits = 0
  /\ calls = 1
  /\ readme = Null
  /\ readmeFlight = << >>
  /\ docKey = << >>
  /\ readmeErrored = FALSE
  /\ fetches = 0

\* The first render with text already typed into the Keywords and Topics
\* inputs before the first debounce wait ends: typing changes the drafts only.
InitDrafted ==
  /\ repos = << >>
  /\ page = FirstPage
  /\ query = "c" /\ language = "" /\ sort = "stars" /\ order = "desc"
  /\ license = "" /\ minStars = "" /\ keywords = "" /\ topics = ""
  /\ loading = FALSE
  /\ tempQuery = "c" /\ tempLanguage = "" /\ tempSort = "stars"
  /\ tempOrder = "desc" /\ tempLicense = "" /\ tempMinStars = ""
  /\ tempKeywords \in KeywordsVals /\ tempTopics \in TopicsVals
  /\ timers =
       <<[args |-> ArgsOf("c", FirstPage, "", "stars", "desc", "", "", "", ""),
          left |-> DebounceWait]>>
  /\ inflight = << >>
  /\ visible \in BOOLEAN
  /\ observed = "none"
  /\ merged = << >>
  /\ failed = FALSE
  /\ commits = 0
  /\ edits = 0
  /\ calls = 1
  /\ readme = Null
  /\ readmeFlight = << >>
  /\ docKey = << >>
  /\ readmeErrored = FALSE
  /\ fetches = 0

\* ------------------------------------------------------------ draft edits
EditFrame ==
  /\ edits < MaxEdits
  /\ edits' = edits + 1
  /\ UNCHANGED <<repos, page, committed, loading, timers, inflight, visible,
                 observed, merged, failed, commits, calls, tempLicense,
                 tempMinStars, viewer>>

setTempQuery ==
  /\ \E v \in QueryVals : tempQuery' = v
  /\ EditFrame
  /\ UNCHANGED <<tempLanguage, tempSort, tempOrder, tempKeywords, tempTopics>>

setTempLanguage ==
  /\ \E v \in LanguageVals : tempLanguage' = v
  /\ EditFrame
  /\ UNCHANGED <<tempQuery, tempSort, tempOrder, tempKeywords, tempTopics>>

setTempSort ==
  /\ \E v \in SortVals : tempSort' = v
  /\ EditFrame
  /\ UNCHANGED <<tempQuery, tempLanguage, tempOrder, tempKeywords, tempTopics>>

setTempOrder ==
  /\ \E v \in OrderVals : tempOrder' = v
  /\ EditFrame
  /\ UNCHANGED <<tempQuery, tempLanguage, tempSort, tempKeywords, tempTopics>>

setTempKeywords ==
  /\ \E v \in KeywordsVals : tempKeywords' = v
  /\ EditFrame
  /\ UNCHANGED <<tempQuery, tempLanguage, tempSort, tempOrder, tempTopics>>

\* The Topics input committing its value as it is typed.
setTempTopicsLive ==
  /\ edits < MaxEdits
  /\ edits' = edits + 1
  /\ \E v \in TopicsVals : tempTopics' = v /\ topics' = v
  /\ UNCHANGED <<repos, page, query, language, sort, order, license, minStars,
                 keywords, loading, timers, inflight, visible, observed, merged,
                 failed, commits, calls, viewer, tempQuery, tempLanguage,
                 tempSort, tempOrder, tempLicense, tempMinStars, tempKeywords>>

setTempTopics ==
  /\ \E v \in TopicsVals : tempTopics' = v
  /\ EditFrame
  /\ UNCHANGED <<tempQuery, tempLanguage, tempSort, tempOrder, tempKeywords>>

\* applyFilters with its updates not batched: a render, with its load
\* effect, comes after setQuery and again after the other setters.
applyFiltersUnbatched ==
  /\ commits < MaxCommits
  /\ query' = tempQuery
  /\ language' = tempLanguage
  /\ sort' = tempSort
  /\ order' = tempOrder
  /\ license' = tempLicense
  /\ minStars' = tempMinStars
  /\ keywords' = tempKeywords
  /\ topics' = tempTopics
  /\ page' = ResetPage
  /\ repos' = ClearedRepos
  /\ \E mid \in {ArgsOf(tempQuery, page, language, sort, order, license,
                         minStars, keywords, topics)} :
     \E new \in {ArgsOf(tempQuery, ResetPage, tempLanguage, tempSort,
                         tempOrder, tempLicense, tempMinStars, tempKeywords,
                         tempTopics)} :
       /\ timers' = LoadEffect(mid, new, LoadEffect(CurArgs, mid, timers))
       /\ calls' = CallsAfter(mid, new, CallsAfter(CurArgs, mid, calls))
  /\ calls' <= MaxCalls
  /\ merged' = << >>
  /\ failed' = FALSE
  /\ commits' = commits + 1
  /\ UNCHANGED <<loading, temps, inflight, visible, observed, edits, viewer>>

\* ------------------------------------------------------------ applyFilters
\* The Search button: the eight setters, setPage(1), setRepos([]), then the
\* render and the load effect.
applyFilters ==
  /\ commits < MaxCommits
  /\ query' = tempQuery
  /\ language' = tempLanguage
  /\ sort' = tempSort
  /\ order' = tempOrder
  /\ license' = tempLicense
  /\ minStars' = tempMinStars
  /\ keywords' = tempKeywords
  /\ topics' = tempTopics
  /\ page' = ResetPage
  /\ repos' = ClearedRepos
  /\ timers' =
       LoadEffect(CurArgs,
                  ArgsOf(tempQuery, ResetPage, tempLanguage, tempSort, tempOrder,
                         tempLicense, tempMinStars, tempKeywords, tempTopics),
                  timers)
  /\ calls' =
       CallsAfter(CurArgs,
                  ArgsOf(tempQuery, ResetPage, tempLanguage, tempSort, tempOrder,
                         tempLicense, tempMinStars, tempKeywords, tempTopics),
                  calls)
  /\ calls' <= MaxCalls
  /\ merged' = << >>
  /\ failed' = FALSE
  /\ commits' = commits + 1
  /\ UNCHANGED <<loading, temps, inflight, visible, observed, edits, viewer>>

\* ------------------------------------------------------------ debounce timers
\* Time passes while no pending timer is due.
Tick ==
  /\ timers # << >>
  /\ timers[1].left > 0
  /\ timers' =
       [i \in DOMAIN timers |->
          [timers[i] EXCEPT
             !.left = IF @ > TickUnit THEN @ - TickUnit ELSE 0]]
  /\ UNCHANGED <<repos, page, committed, loading, temps, inflight, visible,
                 observed, merged, failed, commits, edits, calls, viewer>>

\* A debounce timer expires: the wrapped function runs up to its await:
\* setLoading(true) and the axios.get call.
TimerFire ==
  /\ timers # << >>
  /\ timers[1].left = 0
  /\ timers' = Tail(timers)
  /\ loading' = TRUE
  /\ inflight' = Append(inflight, ParamsOf(timers[1].args))
  /\ observed' = ObserverEffect(loading, TRUE, observed)
  /\ UNCHANGED <<repos, page, committed, temps, visible, merged, failed,
                 commits, edits, calls, viewer>>

\* ------------------------------------------------------------ responses
\* A request resolves: setRepos with the merge, then finally setLoading(false).
ResponseSuccess ==
  \E i \in DOMAIN inflight, items \in Pages :
    /\ repos' = Merge(repos, items)
    /\ loading' = FALSE
    /\ inflight' = Without(inflight, i)
    /\ observed' = ObserverEffect(loading, FALSE, observed)
    /\ merged' =
         Append(merged,
                [params |-> inflight[i], n |-> Len(items), items |-> items])
    /\ UNCHANGED <<page, committed, temps, timers, visible, failed, commits,
                   edits, calls, viewer>>

\* A rejected request without the finally block.
ResponseFailureStuck ==
  \E i \in DOMAIN inflight :
    /\ inflight' = Without(inflight, i)
    /\ failed' = TRUE
    /\ UNCHANGED <<repos, page, committed, loading, temps, timers, visible,
                   observed, merged, commits, edits, calls, viewer>>

\* A rejected request rolling the page cursor back in its catch block.
ResponseFailureRollback ==
  \E i \in DOMAIN inflight :
    /\ loading' = FALSE
    /\ inflight' = Without(inflight, i)
    /\ observed' = ObserverEffect(loading, FALSE, observed)
    /\ failed' = TRUE
    /\ page' = page - 1
    /\ UNCHANGED <<repos, committed, temps, timers, visible, merged, commits,
                   edits, calls, viewer>>

\* A request rejects: catch logs, then finally setLoading(false).
ResponseFailure ==
  \E i \in DOMAIN inflight :
    /\ loading' = FALSE
    /\ inflight' = Without(inflight, i)
    /\ observed' = ObserverEffect(loading, FALSE, observed)
    /\ failed' = TRUE
    /\ UNCHANGED <<repos, page, committed, temps, timers, visible, merged,
                   commits, edits, calls, viewer>>

\* ------------------------------------------------------------ sentinel
\* The sentinel enters or leaves the viewport (the user scrolls, or the
\* list above it grows or is cleared).
SentinelMove ==
  /\ visible' = ~visible
  /\ failed' = IF visible' THEN FALSE ELSE failed
  /\ UNCHANGED <<repos, page, committed, loading, temps, timers, inflight,
                 observed, merged, commits, edits, calls, viewer>>

\* The observer delivers an entry: its first one after observe(), later ones
\* when the intersection changed since the entry before.
ObserverNotify ==
  /\ observed # Entry(visible)
  /\ observed' = Entry(visible)
  /\ IF ShouldAdvance(visible, loading)
       THEN /\ calls < MaxCalls
            /\ page' = NextPage(page)
            /\ timers' =
                 LoadEffect(CurArgs,
                            ArgsOf(query, NextPage(page), language, sort, order,
                                   license, minStars, keywords, topics),
                            timers)
            /\ calls' =
                 CallsAfter(CurArgs,
                            ArgsOf(query, NextPage(page), language, sort, order,
                                   license, minStars, keywords, topics),
                            calls)
       ELSE UNCHANGED <<page, timers, calls>>
  /\ UNCHANGED <<repos, committed, loading, temps, inflight, visible, merged,
                 failed, commits, edits, viewer>>

\* ------------------------------------------------------------ README viewer
\* The key of a card's View README button: repo.owner.login and repo.name,
\* which stand in one-to-one relation with the record's id.
ReadmeKey(repo) == [owner |-> repo.id, repo |-> repo.id]

\* The document the README backend holds for a key (res.data).
Doc(key) == <<"md", key>>

\* marked: the markup rendered from a document.
Marked(data) == <<"html", data>>

\* Whether the readme modal is rendered: readme && (...).
Shown == readme # Null

\* What the README actions leave alone.
FeedFrame ==
  UNCHANGED <<repos, page, committed, loading, temps, timers, inflight,
              visible, observed, merged, failed, commits, edits, calls>>

\* A View README button is clicked: fetchReadme runs up to its await.
fetchReadme ==
  \E i \in DOMAIN repos :
    /\ repos[i].id \in ClickedIds
    /\ fetches < MaxFetches
    /\ readmeFlight' = Append(readmeFlight, ReadmeKey(repos[i]))
    /\ docKey' = <<ReadmeKey(repos[i])>>
    /\ fetches' = fetches + 1
    /\ readmeErrored' = FALSE
    /\ UNCHANGED readme
    /\ FeedFrame

\* A README request resolves: setReadme(marked(res.data)).
ReadmeSuccess ==
  \E i \in DOMAIN readmeFlight :
    /\ readme' = Marked(Doc(readmeFlight[i]))
    /\ readmeFlight' = Without(readmeFlight, i)
    /\ readmeErrored' = FALSE
    /\ UNCHANGED <<docKey, fetches>>
    /\ FeedFrame

\* A rejected README request closing the viewer.
ReadmeFailureCloses ==
  \E i \in DOMAIN readmeFlight :
    /\ readmeFlight' = Without(readmeFlight, i)
    /\ readmeErrored' = TRUE
    /\ readme' = Null
    /\ UNCHANGED <<docKey, fetches>>
    /\ FeedFrame

\* A README request rejects: catch logs.
ReadmeFailure ==
  \E i \in DOMAIN readmeFlight :
    /\ readmeFlight' = Without(readmeFlight, i)
    /\ readmeErrored' = TRUE
    /\ UNCHANGED <<readme, docKey, fetches>>
    /\ FeedFrame

\* The Close button of the modal: setReadme(null).
closeReadme ==
  /\ Shown
  /\ readme' = Null
  /\ docKey' = << >>
  /\ readmeErrored' = FALSE
  /\ UNCHANGED <<readmeFlight, fetches>>
  /\ FeedFrame

\* The repository feed with one draft input edited, tempQuery: the load
\* effect, the debounced call and the request treat the nine arguments alike.
Next ==
  \/ setTempQuery
  \/ applyFilters
  \/ Tick
  \/ TimerFire
  \/ ResponseSuccess
  \/ ResponseFailure
  \/ SentinelMove
  \/ ObserverNotify

Spec == Init /\ [][Next]_vars

\* The same with every draft input edited.
NextDrafts ==
  \/ Next
  \/ setTempLanguage
  \/ setTempSort
  \/ setTempOrder
  \/ setTempKeywords
  \/ setTempTopics

SpecDrafts == Init /\ [][NextDrafts]_vars

\* The feed together with the README viewer.
NextReadme ==
  \/ Next
  \/ fetchReadme
  \/ ReadmeSuccess
  \/ ReadmeFailure
  \/ closeReadme

SpecReadme == Init /\ [][NextReadme]_vars

\* Every draft input, from a first render with text already typed.
SpecCommit == InitDrafted /\ [][NextDrafts]_vars

\* ------------------------------------------------------------ properties
\* The session is exhausted: a page of fewer than PerPage items has been
\* merged for the committed filters since repos was last cleared.
Exhausted ==
  \E i \in DOMAIN merged :
    /\ FiltersOf(merged[i].params) = committed
    /\ merged[i].n < PerPage

\* C1: repos holds no two records with the same id, in every reachable
\* state, whatever the page responses carry.
DedupInvariant ==
  \A i, j \in DOMAIN repos : repos[i].id = repos[j].id => i = j

\* C2: every response merged into repos since repos was last cleared was
\* requested with the committed filters: a response requested with other
\* filters is never merged.
StalenessInvariant ==
  \A i \in DOMAIN merged : FiltersOf(merged[i].params) = committed

\* C3: at most one request for repository pages is in flight.
AtMostOneInFlight == Len(inflight) <= 1

\* C4: calls of the load trigger within one quiet window collapse: at most
\* one call is pending, and it carries the arguments of the latest call.
DebounceCollapse ==
  /\ Len(timers) <= 1
  /\ timers # << >> => timers[1].args = CurArgs

\* C5: every applyFilters step leaves repos empty and the page cursor at 1,
\* and repos holds records only when a response was merged after the last
\* such step.
ResetInvariant ==
  /\ [](merged = << >> => repos = << >>)
  /\ [][commits' # commits =>
          repos' = << >> /\ page' = FirstPage /\ merged' = << >>]_vars

\* C5 witness: applyFilters has cleared the list and reset the cursor after
\* the cursor had advanced: a request for a later page, made with the filters
\* of before the commit, is still in flight.
ResetWitness ==
  /\ commits > 0
  /\ repos = << >>
  /\ page = FirstPage
  /\ \E i \in DOMAIN inflight :
       inflight[i].page > FirstPage /\ FiltersOf(inflight[i]) # committed

\* C6: every applyFilters step leads to a request for page 1 with the
\* committed filters: after the step a debounced call with these arguments
\* is pending, or (counted in the claim's favour) such a request is already
\* in flight.
CommitRequestsFirstPage ==
  [][commits' # commits =>
       \/ \E i \in DOMAIN timers' :
            timers'[i].args = CurArgs' /\ timers'[i].args.page = FirstPage
       \/ \E i \in DOMAIN inflight' :
            inflight'[i] = ParamsOf(CurArgs') /\ inflight'[i].page = FirstPage]_vars

\* C7: the observer advances the page cursor only while no page request is
\* pending or in flight and the session is not exhausted.
AdvanceOnlyWhenIdle ==
  [][page' = page + 1 /\ commits' = commits =>
       timers = << >> /\ inflight = << >> /\ ~Exhausted]_vars

NoLoadAfterExhaustion ==
  [][Exhausted /\ commits' = commits =>
       page' = page /\ Len(timers') <= Len(timers)]_vars

\* C10: after a page request failed, and until a user trigger (applyFilters,
\* or the sentinel becoming visible), the page cursor does not change and no
\* page load is started; stated for a failure that leaves nothing pending,
\* so that any load after it is started by the program alone.
NoAutomaticRetry ==
  [][failed /\ failed' /\ timers = << >> /\ inflight = << >> =>
       page' = page /\ timers' = << >> /\ inflight' = << >>]_vars

\* C11: a README response that arrives after Close, with no request made
\* since, does not open the viewer, and a README response does not replace
\* the shown document of the key last passed to fetchReadme by the document
\* of a key requested earlier.
LateReadmeDiscarded ==
  [][(Len(readmeFlight') < Len(readmeFlight) /\ readme' # readme) =>
       /\ docKey # << >>
       /\ readme # Marked(Doc(docKey[1]))]_vars

\* The number of draft inputs a step changes.
DraftsChanged ==
  Cardinality({i \in 1..Len(temps) : temps'[i] # temps[i]})

\* C12: a draft edit changes at most the one draft input and nothing else:
\* committed filters, page cursor, repos, loading and the README state stay,
\* no load is started and no request issued; the committed filters change
\* only in applyFilters steps.
DraftEditIsolated ==
  [][/\ edits' # edits =>
          /\ DraftsChanged <= 1
          /\ UNCHANGED <<repos, page, committed, loading, viewer, timers,
                         inflight>>
     /\ committed' # committed => commits' = commits + 1 /\ committed' = temps
    ]_vars

\* C12 witness: a draft differs from its committed value while a request
\* made with the committed value is in flight.
DraftEditWitness ==
  /\ edits > 0
  /\ tempTopics # topics
  /\ \E i \in DOMAIN inflight : inflight[i].topics = topics
  /\ loading

\* The indices of the page items whose id no record of prev has.
FreshIndices(prev, items) ==
  {k \in DOMAIN items : \A i \in DOMAIN prev : prev[i].id # items[k].id}

\* C13: a merge keeps the existing list as a prefix, unchanged, and appends
\* exactly the page items whose id is not in the existing list, in the
\* page's order.
MergeResult ==
  [][Len(merged') > Len(merged) =>
       \A items \in {merged'[Len(merged')].items} :
         \A fresh \in {FreshIndices(repos, items)} :
           /\ Len(repos') = Len(repos) + Cardinality(fresh)
           /\ SubSeq(repos', 1, Len(repos)) = repos
           /\ \A k \in fresh :
                repos'[Len(repos) + Cardinality({m \in fresh : m <= k})]
                  = items[k]]_vars

\* C13 witness: the short page was merged into the full page it overlaps:
\* two of its three items were dropped, one was appended.
MergeWitness ==
  /\ Len(merged) = 2
  /\ repos = PageFrom(1, PerPage + 1)

\* C14: a scroll advance (the observer reporting the sentinel visible while
\* loading is false) increments the page cursor by exactly 1 and leaves the
\* committed filters and repos alone; it starts one load with the committed
\* filters and the new cursor, and a request carries the arguments of the
\* load it comes from.
ScrollAdvanceEffect ==
  [][/\ (observed # "in" /\ observed' = "in" /\ ~loading) =>
          /\ page' = page + 1
          /\ committed' = committed
          /\ repos' = repos
          /\ timers' = Append(timers, [args |-> CurArgs', left |-> DebounceWait])
     /\ Len(inflight') > Len(inflight) =>
          /\ timers # << >>
          /\ inflight' = Append(inflight, ParamsOf(timers[1].args))
    ]_vars

\* C14 witness: the request caused by an advance is in flight, with the
\* committed filters and the advanced cursor.
ScrollAdvanceWitness ==
  /\ page = FirstPage + 1
  /\ \E i \in DOMAIN inflight : inflight[i] = ParamsOf(CurArgs)

\* C15: the README actions leave repos, the page cursor, the committed
\* filters and loading alone, and a failed README request leaves readme as it
\* was: it does not show the document of its key.
ReadmeIsolation ==
  [][/\ (\/ fetches' # fetches
         \/ Len(readmeFlight') # Len(readmeFlight)
         \/ Shown /\ ~Shown') => UNCHANGED <<repos, page, committed, loading>>
     /\ (readmeErrored' /\ Len(readmeFlight') < Len(readmeFlight)) =>
          readme' = readme
    ]_vars

\* C15 witness: a README request failed while a document was shown and a
\* page request was in flight.
ReadmeIsolationWitness ==
  /\ readmeErrored
  /\ Shown
  /\ loading
  /\ repos # << >>

\* C16: every page request carries per_page = 10 and a page number >= 1, and
\* so does every pending load.
RequestParamsValid ==
  /\ \A i \in DOMAIN inflight :
       inflight[i].per_page = 10 /\ inflight[i].page \in Nat \ {0}
  /\ \A i \in DOMAIN timers : timers[i].args.page \in Nat \ {0}

\* C16 witness: after a commit and an advance, the requests for page 1 and
\* page 2 are in flight.
RequestParamsWitness ==
  /\ commits > 0
  /\ Len(inflight) = 2
  /\ inflight[1].page = 1
  /\ inflight[2].page = 2

\* C17: every page request that resolves, by success or by failure, clears
\* loading; with no request in flight loading is false.
LoadingEnds ==
  /\ [](inflight = << >> => ~loading)
  /\ [][Len(inflight') < Len(inflight) => ~loading']_vars

\* C17 witness: a request failed, nothing is pending or in flight, and
\* loading is false.
LoadingEndsWitness ==
  /\ failed
  /\ inflight = << >>
  /\ timers = << >>
  /\ ~loading
  /\ observed = "none"

\* C18: a failed page request leaves repos, the page cursor, the committed
\* filters, the drafts and the pending loads as they were.
FailureFrame ==
  [][Len(inflight') < Len(inflight) /\ merged' = merged =>
       UNCHANGED <<repos, page, committed, temps, timers, viewer>>]_vars

\* C18 witness: a request failed after records were merged and the cursor
\* had advanced; they are still there.
FailureFrameWitness ==
  /\ failed
  /\ repos # << >>
  /\ page > FirstPage
  /\ inflight = << >>

\* C19: the page cursor advances from k to k + 1 only after page k was
\* merged for the committed filters.
NoPageGap ==
  [][page' = page + 1 /\ commits' = commits =>
       \E i \in DOMAIN merged :
         /\ merged[i].params.page = page
         /\ FiltersOf(merged[i].params) = committed]_vars

\* repos after the first k merges since it was last cleared.
RECURSIVE ReposAfter(_)
ReposAfter(k) ==
  IF k = 0 THEN << >> ELSE Merge(ReposAfter(k - 1), merged[k].items)

\* The k-th merge appended at least one record.
Delivered(k) == Len(ReposAfter(k)) > Len(ReposAfter(k - 1))

\* C20: records first delivered by a page come before the records first
\* delivered by a later page of the same session: of two merges for the
\* committed filters that both appended records, the earlier one is of the
\* lower page.
PageOrder ==
  \A i, j \in DOMAIN merged :
    (/\ i < j
     /\ FiltersOf(merged[i].params) = committed
     /\ FiltersOf(merged[j].params) = committed
     /\ Delivered(i)
     /\ Delivered(j))
    => merged[i].params.page <= merged[j].params.page

\* C21: a commit takes the complete draft snapshot as the committed filters
\* and sets the page cursor to 1 in one step, and the only load it starts
\* carries that snapshot with page 1, never the old cursor; the committed
\* filters change in no other step; every load carries the committed filters
\* and cursor of its step, whole, and every request the arguments of its
\* load; so up to the first commit every pending load and every request
\* carries the defaults or the committed snapshot, never a mixture.
AtomicCommit ==
  /\ [](commits <= 1 =>
          /\ \A i \in DOMAIN timers :
               FiltersOf(timers[i].args) \in {Defaults, committed}
          /\ \A i \in DOMAIN inflight :
               FiltersOf(inflight[i]) \in {Defaults, committed})
  /\ [][/\ commits' # commits =>
             /\ committed' = temps
             /\ page' = FirstPage
             /\ \/ timers' = timers
                \/ /\ Len(timers') = Len(timers) + 1
                   /\ SubSeq(timers', 1, Len(timers)) = timers
                   /\ FiltersOf(timers'[Len(timers')].args) = temps
                   /\ timers'[Len(timers')].args.page = FirstPage
        /\ commits' = commits => committed' = committed
        /\ Len(timers') > Len(timers) =>
             timers'[Len(timers')].args = CurArgs'
        /\ Len(inflight') > Len(inflight) =>
             /\ timers # << >>
             /\ FiltersOf(inflight'[Len(inflight')])
                  = FiltersOf(timers[1].args)
             /\ inflight'[Len(inflight')].page = timers[1].args.page
       ]_vars

\* C21 witness: a commit that changed two filter fields after an advance:
\* the request of the advance, with the defaults and page 2, and the request
\* of the commit, with the whole snapshot and page 1, are in flight.
AtomicCommitWitness ==
  /\ commits = 1
  /\ keywords # Defaults[7]
  /\ topics # Defaults[8]
  /\ \E i \in DOMAIN inflight :
       FiltersOf(inflight[i]) = Defaults /\ inflight[i].page = FirstPage + 1
  /\ \E i \in DOMAIN inflight :
       FiltersOf(inflight[i]) = committed /\ inflight[i].page = FirstPage

====
